---- MODULE Spec2Model ----
(***************************************************************************)
(* Frame loop of src/src/main.rs (gfx cube example): one CPU thread polls  *)
(* window events, acquires a swapchain frame, records and submits one      *)
(* command batch, presents, waits on frame_fence and resets the pool.      *)
(* The GPU side (image availability, batch execution, presentation) runs   *)
(* asynchronously and is modelled by the environment actions at the end.   *)
(***************************************************************************)
EXTENDS Integers, Sequences, FiniteSets, TLC

\* ---- bounds -------------------------------------------------------------
NumSlots == 2      \* number of backbuffers returned by get_backbuffers()
MaxFrames == 3     \* loop iterations followed before the observation stops
MaxEvents == 2     \* events delivered by one poll_events call

\* ---- values -------------------------------------------------------------
InitDim == <<1024, 768>>   \* dimensions the window is created with
OtherDim == <<1280, 720>>  \* dimensions carried by a Resized event
InitAngle == 45
AngleMod == 360

Dims == {InitDim, OtherDim}
Sems == {"frame_semaphore", "draw_semaphore"}
Slots == 0 .. (NumSlots - 1)

VARIABLES
    pc,            \* position of the main thread
    running,       \* `running` flag of the main loop
    dim,           \* window dimensions
    swap_dim,      \* dimensions the swapchain and its views were built for
    angle,         \* rotation angle in degrees
    data,          \* pipe::Data: transform, out_color, out_depth
    frame,         \* id of the frame returned by the last acquire_frame
    pool_acquired, \* graphics_pool has handed out an encoder since its last reset
    encoder,       \* commands recorded into the current encoder
    flush_ret,     \* Result of the last synced_flush call
    wait_ret,      \* what the last wait_for_fences call returned (discarded by main)
    sawEscape,     \* the last poll delivered an Escape key press
    sem,           \* state of frame_semaphore and draw_semaphore
    frame_fence,   \* state of frame_fence
    inflight,      \* one entry per acquired frame, in order of acquisition
    fetch          \* the indexed read of one cube face: face, first position, indices read

vars == <<pc, running, dim, swap_dim, fetch, angle, data, frame, pool_acquired, encoder,
          flush_ret, wait_ret, sawEscape, sem, frame_fence, inflight>>

cpuVars == <<pc, running, dim, swap_dim, fetch, angle, data, frame, pool_acquired, encoder,
             flush_ret, wait_ret, sawEscape>>

\* ---- static geometry ----------------------------------------------------

NumVerts == 8
NumFaces == 6
FaceLen == 6

\* positions of CUBE_VERTS, in order
CUBE_VERTS ==
    << <<-1, -1, 1>>, <<1, -1, 1>>, <<1, 1, 1>>, <<-1, 1, 1>>,
       <<-1, -1, -1>>, <<1, -1, -1>>, <<1, 1, -1>>, <<-1, 1, -1>> >>

CUBE_INDICES_OutOfRange ==
    << <<0, 1, 2, 2, 3, 0>>, <<4, 5, 6, 6, 7, 4>>, <<0, 1, 4, 4, 5, 1>>,
       <<1, 2, 5, 5, 6, 2>>, <<2, 3, 6, 6, 7, 3>>, <<3, 0, 7, 7, 8, 0>> >>

CUBE_INDICES ==
    << <<0, 1, 2, 2, 3, 0>>, <<4, 5, 6, 6, 7, 4>>, <<0, 1, 4, 4, 5, 1>>,
       <<1, 2, 5, 5, 6, 2>>, <<2, 3, 6, 6, 7, 3>>, <<3, 0, 7, 7, 4, 0>> >>

\* transmute of [[u16; 6]; 6] to [u16; 36]: rows laid out one after the other
flat_indices ==
    [i \in 1..(NumFaces * FaceLen) |->
        CUBE_INDICES[((i - 1) \div FaceLen) + 1][((i - 1) % FaceLen) + 1]]

NoFetch == [face |-> 0, first |-> 0, n |-> 0, idx |-> <<>>, verts |-> {}]

\* ---- pure helpers -------------------------------------------------------

RECURSIVE Gcd(_, _)
Gcd(a, b) == IF b = 0 THEN a ELSE Gcd(b, a % b)

\* mk_transform(dim, angle): the matrix depends on the aspect ratio
\* dim.0 / dim.1 and on the angle, and is identified with that pair
mk_transform(d, a) ==
    [aspect |-> <<d[1] \div Gcd(d[1], d[2]), d[2] \div Gcd(d[1], d[2])>>, angle |-> a]

\* views[i] = (color view of slot i, depth view of slot i)
views(i) == <<i, i>>

Events == {[type |-> "Closed"], [type |-> "Escape"], [type |-> "Other"]}
          \cup {[type |-> "Resized", dim |-> d] : d \in Dims}

\* the closure passed to poll_events, applied to one event
HandleEvent(st, e) ==
    CASE e.type = "Closed"  -> [st EXCEPT !.running = FALSE]
      [] e.type = "Escape"  -> st            \* `return` leaves the closure only
      [] e.type = "Resized" -> [st EXCEPT !.dim = e.dim]
      [] OTHER              -> st

RECURSIVE HandleAll(_, _)
HandleAll(st, evs) ==
    IF evs = <<>> THEN st
    ELSE HandleAll(HandleEvent(st, Head(evs)), Tail(evs))

EventSeqs == UNION {[1 .. n -> Events] : n \in 0 .. MaxEvents}

\* bookkeeping of one acquired frame: asig is the semaphore given to
\* acquire_frame, wait/signal/fence the arguments of its submission, pwait
\* those of its present
NewFrame ==
    [asig |-> "frame_semaphore", avail |-> FALSE,
     gpu |-> "none", wait |-> {}, signal |-> {}, fence |-> FALSE, cmds |-> <<>>,
     pres |-> "none", pwait |-> {}]

Last(fs) == fs[Len(fs)]
SetLast(fs, f) == [fs EXCEPT ![Len(fs)] = f]

\* ---- main thread --------------------------------------------------------

\* while running { ... }
LoopTest ==
    /\ pc = "loop"
    /\ running => Len(inflight) < MaxFrames
    /\ pc' = IF running THEN "poll" ELSE "done"
    /\ UNCHANGED <<running, dim, swap_dim, fetch, angle, data, frame, pool_acquired, encoder, flush_ret, wait_ret,
                   sawEscape, sem, frame_fence, inflight>>

\* variant of the event poll used to test the properties below: the loop is
\* left as soon as Closed has been handled
PollEvents_ExitOnClose ==
    /\ pc = "poll"
    /\ \E evs \in EventSeqs :
          LET st == HandleAll([running |-> running, dim |-> dim], evs) IN
          /\ running' = st.running
          /\ dim' = st.dim
          /\ sawEscape' = (\E i \in DOMAIN evs : evs[i].type = "Escape")
          /\ pc' = IF st.running THEN "update" ELSE "done"
    /\ UNCHANGED <<swap_dim, fetch, angle, data, frame, pool_acquired, encoder, flush_ret, wait_ret, sem, frame_fence, inflight>>

PollEvents ==
    /\ pc = "poll"
    /\ \E evs \in EventSeqs :
          LET st == HandleAll([running |-> running, dim |-> dim], evs) IN
          /\ running' = st.running
          /\ dim' = st.dim
          /\ sawEscape' = (\E i \in DOMAIN evs : evs[i].type = "Escape")
    /\ pc' = "update"
    /\ UNCHANGED <<swap_dim, fetch, angle, data, frame, pool_acquired, encoder, flush_ret, wait_ret, sem, frame_fence, inflight>>

\* variant of the angle update used to test the properties below: the
\* transform is computed before the increment
UpdateAngle_StaleAngle ==
    /\ pc = "update"
    /\ angle' = (angle + 1) % AngleMod
    /\ data' = [data EXCEPT !.transform = mk_transform(dim, angle)]
    /\ pc' = "acquire"
    /\ UNCHANGED <<running, dim, swap_dim, fetch, frame, pool_acquired, encoder, flush_ret, wait_ret,
                   sawEscape, sem, frame_fence, inflight>>

\* angle += 1.; angle %= 360.; data.transform = mk_transform(dim, angle)
UpdateAngle ==
    /\ pc = "update"
    /\ angle' = (angle + 1) % AngleMod
    /\ data' = [data EXCEPT !.transform = mk_transform(dim, angle')]
    /\ pc' = "acquire"
    /\ UNCHANGED <<running, dim, swap_dim, fetch, frame, pool_acquired, encoder, flush_ret, wait_ret,
                   sawEscape, sem, frame_fence, inflight>>

AcquireFrame ==
    /\ pc = "acquire"
    /\ \E i \in Slots :
          /\ frame' = i
          /\ data' = [data EXCEPT !.out_color = views(i)[1]]
    /\ inflight' = Append(inflight, NewFrame)
    /\ pc' = "encoder"
    /\ UNCHANGED <<running, dim, swap_dim, fetch, angle, pool_acquired, encoder, flush_ret, wait_ret, sawEscape,
                   sem, frame_fence>>

AcquireEncoder ==
    /\ pc = "encoder"
    /\ pool_acquired' = TRUE
    /\ encoder' = <<>>
    /\ pc' = "update_cb"
    /\ UNCHANGED <<running, dim, swap_dim, fetch, angle, data, frame, flush_ret, wait_ret, sawEscape, sem, frame_fence, inflight>>

Record(at, cmd, next) ==
    /\ pc = at
    /\ encoder' = Append(encoder, cmd)
    /\ pc' = next
    /\ UNCHANGED <<running, dim, swap_dim, fetch, angle, data, frame, pool_acquired, flush_ret, wait_ret,
                   sawEscape, sem, frame_fence, inflight>>

\* a recorded command: its name and the arguments it was given
Cmd(op, arg) == [op |-> op, arg |-> arg]

\* the kinds of the commands of a recording, in order
Ops(q) == [i \in DOMAIN q |-> q[i].op]

UpdateConstantBuffer ==
    Record("update_cb", Cmd("update_constant_buffer", <<data.transform>>), "clear")
\* variant of clear used to test the properties below: nothing is recorded
Clear_NotRecorded ==
    /\ pc = "clear"
    /\ pc' = "clear_depth"
    /\ UNCHANGED <<running, dim, swap_dim, fetch, angle, data, frame, pool_acquired, encoder,
                   flush_ret, wait_ret, sawEscape, sem, frame_fence, inflight>>

Clear == Record("clear", Cmd("clear", <<data.out_color>>), "clear_depth")
ClearDepth == Record("clear_depth", Cmd("clear_depth", <<data.out_depth>>), "draw")
Draw == Record("draw", Cmd("draw", <<data.out_color, data.out_depth, data.transform>>), "flush")

\* variants of synced_flush used to test the properties below: the batch is
\* submitted with an empty wait list; present is not reached after a
\* successful flush; the Err result is dropped instead of unwrapped
SyncedFlush_NoWait ==
    /\ pc = "flush"
    /\ \/ /\ inflight' = SetLast(inflight,
                [Last(inflight) EXCEPT !.gpu = "queued",
                                       !.wait = {},
                                       !.signal = {"draw_semaphore"},
                                       !.fence = TRUE,
                                       !.cmds = Ops(encoder)])
          /\ flush_ret' = "ok"
          /\ pc' = "present"
       \/ /\ inflight' = inflight
          /\ flush_ret' = "err"
          /\ pc' = "panicked"
    /\ UNCHANGED <<running, dim, swap_dim, fetch, angle, data, frame, pool_acquired, encoder, wait_ret,
                   sawEscape, sem, frame_fence>>

SyncedFlush_SkipPresent ==
    /\ pc = "flush"
    /\ \/ /\ inflight' = SetLast(inflight,
                [Last(inflight) EXCEPT !.gpu = "queued",
                                       !.wait = {"frame_semaphore"},
                                       !.signal = {"draw_semaphore"},
                                       !.fence = TRUE,
                                       !.cmds = Ops(encoder)])
          /\ flush_ret' = "ok"
          /\ pc' = "wait"
       \/ /\ inflight' = inflight
          /\ flush_ret' = "err"
          /\ pc' = "panicked"
    /\ UNCHANGED <<running, dim, swap_dim, fetch, angle, data, frame, pool_acquired, encoder, wait_ret,
                   sawEscape, sem, frame_fence>>

SyncedFlush_IgnoreErr ==
    /\ pc = "flush"
    /\ \/ /\ inflight' = SetLast(inflight,
                [Last(inflight) EXCEPT !.gpu = "queued",
                                       !.wait = {"frame_semaphore"},
                                       !.signal = {"draw_semaphore"},
                                       !.fence = TRUE,
                                       !.cmds = Ops(encoder)])
          /\ flush_ret' = "ok"
       \/ /\ inflight' = inflight
          /\ flush_ret' = "err"
    /\ pc' = "present"
    /\ UNCHANGED <<running, dim, swap_dim, fetch, angle, data, frame, pool_acquired, encoder, wait_ret,
                   sawEscape, sem, frame_fence>>

\* synced_flush(...).expect(..): Ok submits the batch, Err panics
SyncedFlush ==
    /\ pc = "flush"
    /\ \/ /\ inflight' = SetLast(inflight,
                [Last(inflight) EXCEPT !.gpu = "queued",
                                       !.wait = {"frame_semaphore"},
                                       !.signal = {"draw_semaphore"},
                                       !.fence = TRUE,
                                       !.cmds = Ops(encoder)])
          /\ flush_ret' = "ok"
          /\ pc' = "present"
       \/ /\ inflight' = inflight
          /\ flush_ret' = "err"
          /\ pc' = "panicked"
    /\ UNCHANGED <<running, dim, swap_dim, fetch, angle, data, frame, pool_acquired, encoder, wait_ret,
                   sawEscape, sem, frame_fence>>

Present ==
    /\ pc = "present"
    /\ inflight' = SetLast(inflight,
          [Last(inflight) EXCEPT !.pres = "queued", !.pwait = {"draw_semaphore"}])
    /\ pc' = "wait"
    /\ UNCHANGED <<running, dim, swap_dim, fetch, angle, data, frame, pool_acquired, encoder, flush_ret, wait_ret,
                   sawEscape, sem, frame_fence>>

\* variant of wait_for_fences used to test the properties below: no timeout
WaitForFences_NoTimeout ==
    /\ pc = "wait"
    /\ frame_fence
    /\ wait_ret' = "signaled"
    /\ pc' = "cleanup"
    /\ UNCHANGED <<running, dim, swap_dim, fetch, angle, data, frame, pool_acquired, encoder, flush_ret,
                   sawEscape, sem, frame_fence, inflight>>

\* wait_for_fences(&[&frame_fence], All, 1_000_000): returns once the fence is
\* signaled, or when the timeout elapses first; main drops the result
WaitForFences ==
    /\ pc = "wait"
    /\ wait_ret' = IF frame_fence THEN "signaled" ELSE "timeout"
    /\ pc' = "cleanup"
    /\ UNCHANGED <<running, dim, swap_dim, fetch, angle, data, frame, pool_acquired, encoder, flush_ret,
                   sawEscape, sem, frame_fence, inflight>>

Cleanup ==
    /\ pc = "cleanup"
    /\ pc' = "reset"
    /\ UNCHANGED <<running, dim, swap_dim, fetch, angle, data, frame, pool_acquired, encoder, flush_ret, wait_ret,
                   sawEscape, sem, frame_fence, inflight>>

Reset ==
    /\ pc = "reset"
    /\ pool_acquired' = FALSE
    /\ encoder' = <<>>
    /\ pc' = "loop"
    /\ UNCHANGED <<running, dim, swap_dim, fetch, angle, data, frame, flush_ret, wait_ret, sawEscape, sem, frame_fence,
                   inflight>>

CpuStep ==
    \/ LoopTest \/ PollEvents \/ UpdateAngle \/ AcquireFrame \/ AcquireEncoder
    \/ UpdateConstantBuffer \/ Clear \/ ClearDepth \/ Draw
    \/ SyncedFlush \/ Present \/ WaitForFences \/ Cleanup \/ Reset

\* ---- GPU and presentation engine ----------------------------------------

\* least index of a set of frames (0 when the set is empty)
First(S) == IF S = {} THEN 0 ELSE CHOOSE i \in S : \A j \in S : i <= j

FirstNotAvail == First({i \in DOMAIN inflight : ~inflight[i].avail})
FirstQueued == First({i \in DOMAIN inflight : inflight[i].gpu = "queued"})
FirstRunning == First({i \in DOMAIN inflight : inflight[i].gpu = "running"})
FirstPresQueued == First({i \in DOMAIN inflight : inflight[i].pres = "queued"})

\* the image acquired by acquire_frame becomes safe to render into
ImageAvailable ==
    LET i == FirstNotAvail IN
    /\ i # 0
    /\ inflight' = [inflight EXCEPT ![i].avail = TRUE]
    /\ sem' = [sem EXCEPT ![inflight[i].asig] = TRUE]
    /\ UNCHANGED <<cpuVars, frame_fence>>

\* the queue starts its oldest batch once the batch's wait semaphores are signaled
GpuStart ==
    LET i == FirstQueued IN
    /\ i # 0
    /\ FirstRunning = 0
    /\ \A s \in inflight[i].wait : sem[s]
    /\ sem' = [s \in Sems |-> IF s \in inflight[i].wait THEN FALSE ELSE sem[s]]
    /\ inflight' = [inflight EXCEPT ![i].gpu = "running"]
    /\ UNCHANGED <<cpuVars, frame_fence>>

\* the running batch completes: its signal semaphores and its fence are signaled
GpuFinish ==
    LET i == FirstRunning IN
    /\ i # 0
    /\ sem' = [s \in Sems |-> IF s \in inflight[i].signal THEN TRUE ELSE sem[s]]
    /\ frame_fence' = (frame_fence \/ inflight[i].fence)
    /\ inflight' = [inflight EXCEPT ![i].gpu = "done"]
    /\ UNCHANGED cpuVars

\* the presentation engine shows the oldest queued image once its wait
\* semaphores are signaled
PresentExec ==
    LET i == FirstPresQueued IN
    /\ i # 0
    /\ \A s \in inflight[i].pwait : sem[s]
    /\ sem' = [s \in Sems |-> IF s \in inflight[i].pwait THEN FALSE ELSE sem[s]]
    /\ inflight' = [inflight EXCEPT ![i].pres = "shown"]
    /\ UNCHANGED <<cpuVars, frame_fence>>

GpuStep == ImageAvailable \/ GpuStart \/ GpuFinish \/ PresentExec

\* ---- specification ------------------------------------------------------

Init ==
    /\ pc = "loop"
    /\ running = TRUE
    /\ dim = InitDim
    /\ swap_dim = InitDim
    /\ fetch = NoFetch
    /\ angle = InitAngle
    /\ data = [transform |-> mk_transform(InitDim, InitAngle),
               out_color |-> views(0)[1], out_depth |-> views(0)[2]]
    /\ frame = 0
    /\ pool_acquired = FALSE
    /\ encoder = <<>>
    /\ flush_ret = "none"
    /\ wait_ret = "none"
    /\ sawEscape = FALSE
    /\ sem = [s \in Sems |-> FALSE]
    /\ frame_fence = FALSE
    /\ inflight = <<>>

Next ==
    \/ LoopTest \/ PollEvents \/ UpdateAngle \/ AcquireFrame \/ AcquireEncoder
    \/ UpdateConstantBuffer \/ Clear \/ ClearDepth \/ Draw
    \/ SyncedFlush \/ Present \/ WaitForFences \/ Cleanup \/ Reset
    \/ ImageAvailable \/ GpuStart \/ GpuFinish \/ PresentExec

Spec == Init /\ [][Next]_vars

\* the main thread is never descheduled forever; nothing is assumed of the GPU
FairSpec == Spec /\ WF_vars(CpuStep)

\* ---- unbounded runs with a GPU that keeps up ------------------------------

\* while running { ... } for runs of any length: the bookkeeping of frames the
\* GPU has finished and shown is dropped at the head of the loop
LoopHead ==
    /\ pc = "loop"
    /\ \A i \in DOMAIN inflight : inflight[i].gpu = "done" /\ inflight[i].pres = "shown"
    /\ pc' = IF running THEN "poll" ELSE "done"
    /\ inflight' = IF running THEN <<>> ELSE inflight
    /\ UNCHANGED <<running, dim, swap_dim, fetch, angle, data, frame, pool_acquired, encoder, flush_ret,
                   wait_ret, sawEscape, sem, frame_fence>>

CpuBody ==
    \/ PollEvents \/ UpdateAngle \/ AcquireFrame \/ AcquireEncoder
    \/ UpdateConstantBuffer \/ Clear \/ ClearDepth \/ Draw
    \/ SyncedFlush \/ Present \/ WaitForFences \/ Cleanup \/ Reset

\* the GPU and the presentation engine finish their pending work before the
\* main thread takes its next step
LoopNext ==
    \/ ImageAvailable \/ GpuStart \/ GpuFinish \/ PresentExec
    \/ ~ENABLED GpuStep /\ LoopHead
    \/ ~ENABLED GpuStep /\ CpuBody

LoopSpec == Init /\ [][LoopNext]_vars /\ WF_vars(LoopNext)

\* ---- properties ---------------------------------------------------------

Submitted(f) == f.gpu # "none"
Completed(f) == f.gpu = "done"
Older == 1 .. (Len(inflight) - 1)
NotPresented == {i \in DOMAIN inflight : inflight[i].pres = "none"}

\* C1 (no premature reuse): update_constant_buffer of an iteration happens
\* only when the batch submitted by every earlier iteration has finished on
\* the GPU, i.e. its completion fence has fired.
C1_NoPrematureReuse ==
    [][UpdateConstantBuffer => \A i \in Older : Completed(inflight[i])]_vars

\* C2 (single flight): acquire_graphics_encoder is called only on a pool that
\* was reset since the previous encoder, and graphics_pool.reset is called only
\* once the batch recorded from the pool has finished (its fence has fired).
C2_SingleFlight ==
    [][(AcquireEncoder => ~pool_acquired)
       /\ (Reset => Completed(Last(inflight)))]_vars

\* C3 (drain on exit): when the loop has exited, the last frame has been
\* presented and waited on, and the completion fence of the last submission is
\* signaled: the GPU has finished the last batch.
C3_DrainOnExit ==
    pc = "done" =>
        /\ Last(inflight).pres # "none"
        /\ wait_ret # "none"
        /\ frame_fence
        /\ Completed(Last(inflight))

C5_TimeoutReported ==
    [][Reset => wait_ret = "signaled"]_vars

\* C6 (fence reset before reuse): frame_fence is unsignaled at the moment a
\* submission names it as its completion fence.
C6_FenceResetBeforeReuse ==
    [][(SyncedFlush /\ flush_ret' = "ok") => ~frame_fence]_vars

C8_AcquirePresentAlternate ==
    /\ [](Cardinality(NotPresented) <= 1)
    /\ [][(AcquireFrame => NotPresented = {})
          /\ (Present => NotPresented = {Len(inflight)})]_vars

C8_Witness ==
    Len(inflight) >= 2 /\ pc = "wait" /\ inflight[1].pres = "queued"

\* C9 (binary semaphores): a semaphore is signaled only while it is
\* unsignaled, so every signal is consumed before the next one.
C9_BinarySemaphore ==
    [][(ImageAvailable => ~sem["frame_semaphore"])
       /\ (GpuFinish => ~sem["draw_semaphore"])]_vars

\* C10 (failed submission is fatal): once synced_flush has returned an error
\* the main thread has panicked, the frame is neither submitted nor presented,
\* and the main thread does nothing more.
C10_FailedSubmissionFatal ==
    /\ [](flush_ret = "err" =>
            /\ pc = "panicked"
            /\ ~Submitted(Last(inflight))
            /\ Last(inflight).pres = "none")
    /\ [][flush_ret = "err" => UNCHANGED cpuVars /\ Len(inflight') = Len(inflight)]_vars

C10_Witness ==
    flush_ret = "err" /\ Len(inflight) >= 2 /\ Last(inflight).avail

Recording == {"encoder", "update_cb", "clear", "clear_depth", "draw", "flush"}

\* C11 (resize handling): whenever a frame is being recorded, the swapchain
\* and its views have the dimensions carried by the last Resized event.
C11_ResizeRebuilds ==
    pc \in Recording => swap_dim = dim

\* C13 (render-target binding): while a frame is recorded, out_color and
\* out_depth are the color and depth views of the slot acquire_frame returned.
C13_TargetBinding ==
    pc \in Recording =>
        data.out_color = views(frame)[1] /\ data.out_depth = views(frame)[2]

Unfinished == {i \in DOMAIN inflight : inflight[i].gpu \in {"queued", "running"}}

\* C16 (backpressure bound): at most one submitted batch is unfinished on the GPU.
C16_Backpressure ==
    Cardinality(Unfinished) <= 1

\* ---- the indexed read of the cube --------------------------------------

\* a face and the position in it where the read starts
IndexInit ==
    /\ pc = "loop" /\ running = TRUE /\ dim = InitDim /\ swap_dim = InitDim
    /\ angle = InitAngle
    /\ data = [transform |-> mk_transform(InitDim, InitAngle),
               out_color |-> views(0)[1], out_depth |-> views(0)[2]]
    /\ frame = 0 /\ pool_acquired = FALSE /\ encoder = <<>>
    /\ flush_ret = "none" /\ wait_ret = "none" /\ sawEscape = FALSE
    /\ sem = [s \in Sems |-> FALSE] /\ frame_fence = FALSE /\ inflight = <<>>
    /\ \E f \in 0..(NumFaces - 1), k \in 0..(FaceLen - 1) :
          fetch = [face |-> f, first |-> k, n |-> 0, idx |-> <<>>, verts |-> {}]

\* read the next index of the face from flat_indices, then the vertex it names
\* from CUBE_VERTS when there is one
FetchIndex ==
    /\ fetch.n < FaceLen
    /\ LET k == (fetch.first + fetch.n) % FaceLen
           i == flat_indices[FaceLen * fetch.face + k + 1]
       IN  fetch' = [fetch EXCEPT !.n = @ + 1,
                                  !.idx = Append(@, i),
                                  !.verts = IF i + 1 \in DOMAIN CUBE_VERTS
                                            THEN @ \cup {CUBE_VERTS[i + 1]} ELSE @]
    /\ UNCHANGED <<pc, running, dim, swap_dim, angle, data, frame, pool_acquired, encoder,
                   flush_ret, wait_ret, sawEscape, sem, frame_fence, inflight>>

IndexSpec == IndexInit /\ [][FetchIndex]_vars

Range(q) == {q[i] : i \in DOMAIN q}

\* C12 (index buffer validity): every index read lies in [0, 8), and the six
\* indices of a face name exactly 4 distinct vertices of CUBE_VERTS.
C12_IndexValidity ==
    /\ Range(fetch.idx) \subseteq 0..(NumVerts - 1)
    /\ Len(CUBE_VERTS) = NumVerts
    /\ Len(flat_indices) = NumFaces * FaceLen
    /\ fetch.n = FaceLen =>
          Cardinality(Range(fetch.idx)) = 4 /\ Cardinality(fetch.verts) = 4

C12_Witness ==
    fetch.face = 5 /\ fetch.n = FaceLen /\ Cardinality(fetch.verts) = 4

ClaimedOrder == <<"clear", "clear_depth", "update_constant_buffer", "draw">>
RecordedOrder == <<"update_constant_buffer", "clear", "clear_depth", "draw">>
AfterFlush == {"present", "wait", "cleanup", "reset"}

C15_BoundedWait ==
    /\ [](pc = "wait" => ENABLED WaitForFences)
    /\ (pc = "wait") ~> (pc = "loop" /\ ~pool_acquired)

C15_Witness ==
    /\ pc = "loop"
    /\ wait_ret = "timeout"
    /\ ~frame_fence
    /\ inflight # <<>>
    /\ \A i \in DOMAIN inflight : ~Completed(inflight[i])

\* the steps of one iteration after its poll, in program order
FrameFlow ==
    { <<"update", "acquire">>, <<"acquire", "encoder">>, <<"encoder", "update_cb">>,
      <<"update_cb", "clear">>, <<"clear", "clear_depth">>, <<"clear_depth", "draw">>,
      <<"draw", "flush">>, <<"flush", "present">>, <<"present", "wait">>,
      <<"wait", "cleanup">>, <<"cleanup", "reset">>, <<"reset", "loop">>,
      <<"loop", "done">> }

\* what each step of FrameFlow does to the frame of the iteration
FrameEffect ==
    /\ pc = "acquire" => Len(inflight') = Len(inflight) + 1
    /\ pc # "acquire" => Len(inflight') = Len(inflight)
    /\ pc = "flush" /\ pc' = "present" =>
          ~Submitted(Last(inflight)) /\ Submitted(Last(inflight'))
    /\ pc = "present" =>
          Last(inflight).pres = "none" /\ Last(inflight').pres = "queued"
    /\ pc = "wait" => wait_ret' \in {"signaled", "timeout"}
    /\ pc = "reset" => ~pool_acquired'

\* C17 as stated (one more frame after close): once Closed has been handled,
\* the iteration goes through acquire_frame, submission, present, fence wait
\* and pool reset, once each and in this order, and the loop then exits.
C17_ClaimedFullFrame ==
    /\ [][PollEvents /\ ~running' => pc' = "update"]_vars
    /\ [][~running /\ pc' # pc => <<pc, pc'>> \in FrameFlow /\ FrameEffect]_vars
    /\ (~running /\ pc = "update") ~> (pc = "done")

\* C17 (one more frame after close, amended): as above, except that the
\* iteration ends in a panic, before present, when its synced_flush fails.
C17_OneMoreFrame ==
    /\ [][PollEvents /\ ~running' => pc' = "update"]_vars
    /\ [][~running /\ pc' # pc =>
            \/ <<pc, pc'>> \in FrameFlow /\ FrameEffect
            \/ pc = "flush" /\ pc' = "panicked" /\ flush_ret' = "err"
                  /\ inflight' = inflight]_vars
    /\ [](pc = "done" => ~running /\ flush_ret = "ok" /\ ~pool_acquired
                          /\ Submitted(Last(inflight)) /\ Last(inflight).pres # "none")
    /\ (~running /\ pc = "update") ~> (pc = "done" \/ pc = "panicked")

C17_Witness ==
    /\ pc = "done"
    /\ Len(inflight) = 1
    /\ Submitted(inflight[1]) /\ inflight[1].pres # "none"
    /\ wait_ret # "none"

\* the transform passed to update_constant_buffer in a recording
Uploaded(q) ==
    LET i == CHOOSE j \in DOMAIN q : q[j].op = "update_constant_buffer" IN q[i].arg[1]

\* C18 (angle and transform update): the angle starts at 45, changes only in
\* the update step of an iteration, there by +1 with 359 followed by 0, and so
\* stays in [0, 360); the transform uploaded by an iteration is mk_transform of
\* the dimensions after that iteration's poll and the angle after its increment.
C18_AngleTransform ==
    /\ angle = 45
    /\ [](angle \in 0..359)
    /\ [][angle' = IF pc = "update" /\ pc' # pc
                   THEN (IF angle = 359 THEN 0 ELSE angle + 1)
                   ELSE angle]_vars
    /\ [][dim' # dim => pc = "poll"]_vars
    /\ [][UpdateConstantBuffer =>
            Uploaded(encoder') = mk_transform(dim, angle)]_vars
    /\ [](pc \in AfterFlush =>
            Uploaded(encoder) = mk_transform(dim, angle))

C18_Witness ==
    /\ pc = "present"
    /\ angle = 0
    /\ dim = OtherDim
    /\ Uploaded(encoder) = mk_transform(OtherDim, 0)

====
